---------------------------- MODULE Spec2Model ----------------------------
(***************************************************************************)
(* Request-processing core of the aquatic WebSocket tracker:               *)
(* run_request_worker, handle_announce_requests and handle_scrape_requests *)
(* of aquatic_ws/src/lib/handler.rs, with the channels set up in           *)
(* aquatic_ws/src/lib/lib.rs.                                              *)
(***************************************************************************)
EXTENDS Integers, Sequences, FiniteSets, TLC

(***************************************************************************)
(* Value universes                                                         *)
(***************************************************************************)
InfoHashes == {"A", "B"}
PeerIds == {"P", "Q"}
PeerAddrs == {"addr1", "addr2"}

\* run() spawns socket workers for i in 0..1
NumSocketWorkers == 1
WorkerIndexes == 0 .. (NumSocketWorkers - 1)

AnnounceEvents == {"Started", "Stopped", "Completed", "Empty"}
BytesLeftValues == {0, 100}

\* configuration values read by the handlers
max_offers == 2
max_scrape_torrents == 2
peer_announce_interval == 120
max_peer_age == 5
max_requests_per_iter == 2

\* longest offer list / info hash list a request carries in the model
MaxOffersLen == 3
MaxScrapeLen == 3
\* most messages the socket workers put on the inbound channel in a run
MaxSent == 2
\* largest reading of the clock
MaxNow == 1

(***************************************************************************)
(* Option<T>: None is the empty sequence, Some(x) the one-element sequence *)
(***************************************************************************)
None == << >>
Some(x) == << x >>
IsSome(o) == o # << >>
Unwrap(o) == o[1]
OptionOf(S) == {None} \cup {Some(x) : x \in S}

Min(a, b) == IF a <= b THEN a ELSE b

ConnectionMetas == [peer_addr : PeerAddrs, worker_index : WorkerIndexes]

\* the offers of a request: offer i carries payload i and offer id i
OfferAt(k) == [offer |-> k, offer_id |-> k]
OfferList(n) == [k \in 1 .. n |-> OfferAt(k)]
OfferLists == {OfferList(n) : n \in 0 .. MaxOffersLen}

Answers == {"sdp_answer"}
OfferIds == {1}

AnnounceRequests ==
    [info_hash : InfoHashes,
     peer_id : PeerIds,
     event : AnnounceEvents,
     bytes_left : BytesLeftValues,
     offers : OptionOf(OfferLists),
     answer : OptionOf(Answers),
     to_peer_id : OptionOf(PeerIds),
     offer_id : OptionOf(OfferIds)]

RECURSIVE SeqsUpTo(_, _)
SeqsUpTo(S, n) ==
    IF n = 0 THEN {<< >>}
    ELSE LET shorter == SeqsUpTo(S, n - 1)
         IN shorter \cup {Append(s, x) : s \in {t \in shorter : Len(t) = n - 1}, x \in S}

ScrapeRequests == [info_hashes : SeqsUpTo(InfoHashes, MaxScrapeLen)]

(***************************************************************************)
(* PeerStatus and TorrentData                                              *)
(***************************************************************************)
FromEventAndBytesLeft(event, bytes_left) ==
    IF event = "Stopped" THEN "Stopped"
    ELSE IF bytes_left = 0 THEN "Seeding"
    ELSE "Leeching"

\* TorrentData::default()
DefaultTorrentData ==
    [peers |-> << >>, num_seeders |-> 0, num_leechers |-> 0]

\* torrents.entry(info_hash).or_default()
EntryOrDefault(tmap, info_hash) ==
    IF info_hash \in DOMAIN tmap THEN tmap
    ELSE [h \in (DOMAIN tmap) \cup {info_hash} |->
            IF h = info_hash THEN DefaultTorrentData ELSE tmap[h]]

\* HashMap::insert / HashMap::remove on the peer map
MapInsert(m, k, v) == [x \in (DOMAIN m) \cup {k} |-> IF x = k THEN v ELSE m[x]]
MapRemove(m, k) == [x \in (DOMAIN m) \ {k} |-> m[x]]
MapGet(m, k) == IF k \in DOMAIN m THEN Some(m[k]) ELSE None


(***************************************************************************)
(* State                                                                   *)
(***************************************************************************)
VARIABLES
    torrents,             \* state.torrents: InfoHash -> TorrentData
    mutex,                \* owner of the state.torrents mutex
    in_message_channel,   \* the flume channel feeding the request worker
    senders_alive,        \* whether a sender of that channel still exists
    sent,                 \* number of messages the socket workers have sent
    out_message_channels, \* one flume channel per socket worker
    now,                  \* the clock ValidUntil::new reads
    pc,                   \* position of the request worker
    i,                    \* loop index of the batch-fill loop
    received,             \* in-messages received in this iteration, in order
    announce_requests,    \* buffer of (meta, AnnounceRequest)
    scrape_requests,      \* buffer of (meta, ScrapeRequest)
    out_messages,         \* buffer of (meta, OutMessage)
    valid_until           \* valid_until of the running handle_announce_requests

vars ==
    << torrents, mutex, in_message_channel, senders_alive, sent,
       out_message_channels, now, pc, i, received, announce_requests,
       scrape_requests, out_messages, valid_until >>

channel_vars == << in_message_channel, senders_alive, sent, out_message_channels >>
loop_vars == << i, received >>

(***************************************************************************)
(* handle_announce_requests, one request of the drain                      *)
(***************************************************************************)

\* the address check comparing the routing handle instead of the address
AddressMismatch_ByWorkerIndex(torrent_data, sender_meta, peer_id) ==
    LET previous_peer == MapGet(torrent_data.peers, peer_id)
    IN  /\ IsSome(previous_peer)
        /\ sender_meta.worker_index
              # Unwrap(previous_peer).connection_meta.worker_index

\* the address check: a peer with this peer_id exists under another address
AddressMismatch(torrent_data, sender_meta, peer_id) ==
    LET previous_peer == MapGet(torrent_data.peers, peer_id)
    IN  /\ IsSome(previous_peer)
        /\ sender_meta.peer_addr # Unwrap(previous_peer).connection_meta.peer_addr

\* the match with a Stopped arm that leaves the peer in the map
ApplyPeerStatus_StoppedKeepsPeer(torrent_data, peer_id, peer) ==
    LET previous == MapGet(torrent_data.peers, peer_id)
    IN  CASE peer.status = "Leeching" ->
               [torrent_data |->
                    [torrent_data EXCEPT
                        !.num_leechers = @ + 1,
                        !.peers = MapInsert(@, peer_id, peer)],
                opt_removed_peer |-> previous]
          [] peer.status = "Seeding" ->
               [torrent_data |->
                    [torrent_data EXCEPT
                        !.num_seeders = @ + 1,
                        !.peers = MapInsert(@, peer_id, peer)],
                opt_removed_peer |-> previous]
          [] peer.status = "Stopped" ->
               [torrent_data |-> torrent_data, opt_removed_peer |-> None]

\* the match with a Stopped arm that inserts the record like the other arms
ApplyPeerStatus_StoppedInserts(torrent_data, peer_id, peer) ==
    LET previous == MapGet(torrent_data.peers, peer_id)
    IN  CASE peer.status = "Leeching" ->
               [torrent_data |->
                    [torrent_data EXCEPT
                        !.num_leechers = @ + 1,
                        !.peers = MapInsert(@, peer_id, peer)],
                opt_removed_peer |-> previous]
          [] peer.status = "Seeding" ->
               [torrent_data |->
                    [torrent_data EXCEPT
                        !.num_seeders = @ + 1,
                        !.peers = MapInsert(@, peer_id, peer)],
                opt_removed_peer |-> previous]
          [] peer.status = "Stopped" ->
               [torrent_data |->
                    [torrent_data EXCEPT !.peers = MapInsert(@, peer_id, peer)],
                opt_removed_peer |-> previous]

\* the match with a Seeding arm that bumps num_leechers
ApplyPeerStatus_SeedingBumpsLeechers(torrent_data, peer_id, peer) ==
    LET previous == MapGet(torrent_data.peers, peer_id)
    IN  CASE peer.status = "Leeching" ->
               [torrent_data |->
                    [torrent_data EXCEPT
                        !.num_leechers = @ + 1,
                        !.peers = MapInsert(@, peer_id, peer)],
                opt_removed_peer |-> previous]
          [] peer.status = "Seeding" ->
               [torrent_data |->
                    [torrent_data EXCEPT
                        !.num_leechers = @ + 1,
                        !.peers = MapInsert(@, peer_id, peer)],
                opt_removed_peer |-> previous]
          [] peer.status = "Stopped" ->
               [torrent_data |->
                    [torrent_data EXCEPT !.peers = MapRemove(@, peer_id)],
                opt_removed_peer |-> previous]

\* match peer_status: bump the counter of the new status, insert or remove
ApplyPeerStatus(torrent_data, peer_id, peer) ==
    LET previous == MapGet(torrent_data.peers, peer_id)
    IN  CASE peer.status = "Leeching" ->
               [torrent_data |->
                    [torrent_data EXCEPT
                        !.num_leechers = @ + 1,
                        !.peers = MapInsert(@, peer_id, peer)],
                opt_removed_peer |-> previous]
          [] peer.status = "Seeding" ->
               [torrent_data |->
                    [torrent_data EXCEPT
                        !.num_seeders = @ + 1,
                        !.peers = MapInsert(@, peer_id, peer)],
                opt_removed_peer |-> previous]
          [] peer.status = "Stopped" ->
               [torrent_data |->
                    [torrent_data EXCEPT !.peers = MapRemove(@, peer_id)],
                opt_removed_peer |-> previous]

\* the match without the Seeding arm
DecrementRemoved_KeepsSeeders(torrent_data, opt_removed_peer) ==
    IF IsSome(opt_removed_peer) /\ Unwrap(opt_removed_peer).status = "Leeching"
    THEN [torrent_data EXCEPT !.num_leechers = @ - 1]
    ELSE torrent_data

\* the match without the Leeching arm
DecrementRemoved_KeepsLeechers(torrent_data, opt_removed_peer) ==
    IF IsSome(opt_removed_peer) /\ Unwrap(opt_removed_peer).status = "Seeding"
    THEN [torrent_data EXCEPT !.num_seeders = @ - 1]
    ELSE torrent_data

\* match opt_removed_peer.map(|peer| peer.status)
DecrementRemoved(torrent_data, opt_removed_peer) ==
    IF IsSome(opt_removed_peer) /\ Unwrap(opt_removed_peer).status = "Leeching"
    THEN [torrent_data EXCEPT !.num_leechers = @ - 1]
    ELSE IF IsSome(opt_removed_peer) /\ Unwrap(opt_removed_peer).status = "Seeding"
    THEN [torrent_data EXCEPT !.num_seeders = @ - 1]
    ELSE torrent_data

\* sequences of n distinct elements of S
RECURSIVE DistinctSeqs(_, _)
DistinctSeqs(S, n) ==
    IF n = 0 THEN {<< >>}
    ELSE UNION {{<< x >> \o s : s \in DistinctSeqs(S \ {x}, n - 1)} : x \in S}

\* aquatic_common::extract_response_peers: the peer ids it may pick, as the
\* Vec it returns; any min(max_num_peers_to_take, len) distinct peers
ExtractResponsePeers(peers, max_num_peers_to_take) ==
    DistinctSeqs(DOMAIN peers,
                 Min(max_num_peers_to_take, Cardinality(DOMAIN peers)))

\* the number of peers asked for without the clamp to config.network.max_offers
MaxNumPeersToTake_NoConfigClamp(offers) == Len(offers)

\* offers.len().min(config.network.max_offers)
MaxNumPeersToTake(offers) == Min(Len(offers), max_offers)

\* the zip over the picked peers without the announcing peer
OfferMessages_SkipsSelf(torrent_data, info_hash, peer_id, offers, picked) ==
    LET others == SelectSeq(picked, LAMBDA q : q # peer_id)
    IN  [k \in 1 .. Min(Len(offers), Len(others)) |->
            << torrent_data.peers[others[k]].connection_meta,
               [type |-> "Offer",
                info_hash |-> info_hash,
                peer_id |-> peer_id,
                offer |-> offers[k].offer,
                offer_id |-> offers[k].offer_id] >>]

\* for (offer, peer) in offers.into_iter().zip(peers)
OfferMessages(torrent_data, info_hash, peer_id, offers, picked) ==
    [k \in 1 .. Min(Len(offers), Len(picked)) |->
        << torrent_data.peers[picked[k]].connection_meta,
           [type |-> "Offer",
            info_hash |-> info_hash,
            peer_id |-> peer_id,
            offer |-> offers[k].offer,
            offer_id |-> offers[k].offer_id] >>]

\* the answer relay that leaves out an answer addressed to the announcer itself
AnswerMessages_NotToSelf(torrent_data, request) ==
    IF /\ IsSome(request.answer)
       /\ IsSome(request.to_peer_id)
       /\ IsSome(request.offer_id)
       /\ Unwrap(request.to_peer_id) \in DOMAIN torrent_data.peers
       /\ Unwrap(request.to_peer_id) # request.peer_id
    THEN << << torrent_data.peers[Unwrap(request.to_peer_id)].connection_meta,
               [type |-> "Answer",
                peer_id |-> request.peer_id,
                info_hash |-> request.info_hash,
                answer |-> Unwrap(request.answer),
                offer_id |-> Unwrap(request.offer_id)] >> >>
    ELSE << >>

\* match (request.answer, request.to_peer_id, request.offer_id)
AnswerMessages(torrent_data, request) ==
    IF /\ IsSome(request.answer)
       /\ IsSome(request.to_peer_id)
       /\ IsSome(request.offer_id)
       /\ Unwrap(request.to_peer_id) \in DOMAIN torrent_data.peers
    THEN << << torrent_data.peers[Unwrap(request.to_peer_id)].connection_meta,
               [type |-> "Answer",
                peer_id |-> request.peer_id,
                info_hash |-> request.info_hash,
                answer |-> Unwrap(request.answer),
                offer_id |-> Unwrap(request.offer_id)] >> >>
    ELSE << >>

\* OutMessage::AnnounceResponse pushed for sender_meta
AnnounceResponseMessage(torrent_data, sender_meta, info_hash) ==
    << sender_meta,
       [type |-> "AnnounceResponse",
        info_hash |-> info_hash,
        complete |-> torrent_data.num_seeders,
        incomplete |-> torrent_data.num_leechers,
        announce_interval |-> peer_announce_interval] >>

\* the peer ids the rng may pick for this request (one empty pick without offers)
Picks(torrent_data, request) ==
    IF IsSome(request.offers)
    THEN ExtractResponsePeers(torrent_data.peers,
                              MaxNumPeersToTake(Unwrap(request.offers)))
    ELSE {<< >>}

\* lines 112-147 for an accepted request: the torrent's data afterwards
UpdatePeer(torrent_data, sender_meta, request, vu) ==
    LET peer_status == FromEventAndBytesLeft(request.event, request.bytes_left)
        peer == [connection_meta |-> sender_meta,
                 status |-> peer_status,
                 valid_until |-> vu]
        applied == ApplyPeerStatus(torrent_data, request.peer_id, peer)
    IN  DecrementRemoved(applied.torrent_data, applied.opt_removed_peer)

\* the messages without a response to a Stopped announce
AnnounceMessages_NoResponseWhenStopped(torrent_data, sender_meta, request, picked) ==
    (IF IsSome(request.offers)
     THEN OfferMessages(torrent_data, request.info_hash, request.peer_id,
                        Unwrap(request.offers), picked)
     ELSE << >>)
    \o AnswerMessages(torrent_data, request)
    \o (IF request.event = "Stopped"
        THEN << >>
        ELSE << AnnounceResponseMessage(torrent_data, sender_meta,
                                        request.info_hash) >>)

\* lines 149-209 for an accepted request: the messages pushed, in order
AnnounceMessages(torrent_data, sender_meta, request, picked) ==
    (IF IsSome(request.offers)
     THEN OfferMessages(torrent_data, request.info_hash, request.peer_id,
                        Unwrap(request.offers), picked)
     ELSE << >>)
    \o AnswerMessages(torrent_data, request)
    \o << AnnounceResponseMessage(torrent_data, sender_meta, request.info_hash) >>

\* the pass that takes a torrent out of the map once its peer set is empty
AnnounceOutcomes_DropsEmptyTorrent(tmap, sender_meta, request, vu) ==
    LET with_entry == EntryOrDefault(tmap, request.info_hash)
        torrent_data == with_entry[request.info_hash]
        updated == UpdatePeer(torrent_data, sender_meta, request, vu)
        kept == IF updated.peers = << >>
                THEN DOMAIN with_entry \ {request.info_hash}
                ELSE DOMAIN with_entry
    IN  IF AddressMismatch(torrent_data, sender_meta, request.peer_id)
        THEN {[torrents |-> with_entry, messages |-> << >>]}
        ELSE {[torrents |-> [h \in kept |->
                               IF h = request.info_hash THEN updated ELSE with_entry[h]],
               messages |-> AnnounceMessages(updated, sender_meta, request, picked)] :
                 picked \in Picks(updated, request)}

\* every outcome of one pass of the for loop: [torrents, messages]
AnnounceOutcomes(tmap, sender_meta, request, vu) ==
    LET with_entry == EntryOrDefault(tmap, request.info_hash)
        torrent_data == with_entry[request.info_hash]
        updated == UpdatePeer(torrent_data, sender_meta, request, vu)
    IN  IF AddressMismatch(torrent_data, sender_meta, request.peer_id)
        THEN {[torrents |-> with_entry, messages |-> << >>]}
        ELSE {[torrents |-> [with_entry EXCEPT ![request.info_hash] = updated],
               messages |-> AnnounceMessages(updated, sender_meta, request, picked)] :
                 picked \in Picks(updated, request)}

HandleAnnounceRequest ==
    /\ pc = "announce"
    /\ announce_requests # << >>
    /\ \E outcome \in AnnounceOutcomes(torrents, Head(announce_requests)[1],
                                       Head(announce_requests)[2], valid_until) :
          /\ torrents' = outcome.torrents
          /\ out_messages' = out_messages \o outcome.messages
    /\ announce_requests' = Tail(announce_requests)
    /\ UNCHANGED << mutex, channel_vars, now, pc, loop_vars, scrape_requests,
                    valid_until >>

(***************************************************************************)
(* handle_scrape_requests, one request of the drain                        *)
(***************************************************************************)

\* take() that hands out the whole list
Take_NoLimit(s, n) == s

\* request.info_hashes.into_iter().take(num_to_take)
Take(s, n) == SubSeq(s, 1, Min(n, Len(s)))

\* the response that lists every torrent for an empty request
ScrapeResponseFor_AllWhenEmpty(tmap, request) ==
    LET num_to_take == Min(Len(request.info_hashes), max_scrape_torrents)
        taken == Take(request.info_hashes, num_to_take)
        found == IF request.info_hashes = << >>
                 THEN DOMAIN tmap
                 ELSE {taken[k] : k \in 1 .. Len(taken)} \cap DOMAIN tmap
    IN  [type |-> "ScrapeResponse",
         files |-> [h \in found |->
                      [complete |-> tmap[h].num_seeders,
                       downloaded |-> 0,
                       incomplete |-> tmap[h].num_leechers]]]

\* ScrapeResponse of one request: lines 221-243
ScrapeResponseFor(tmap, request) ==
    LET num_to_take == Min(Len(request.info_hashes), max_scrape_torrents)
        taken == Take(request.info_hashes, num_to_take)
        found == {taken[k] : k \in 1 .. Len(taken)} \cap DOMAIN tmap
    IN  [type |-> "ScrapeResponse",
         files |-> [h \in found |->
                      [complete |-> tmap[h].num_seeders,
                       downloaded |-> 0,
                       incomplete |-> tmap[h].num_leechers]]]

\* the drain with torrents.entry(info_hash).or_default() in place of get
HandleScrapeRequest_CreatesEntries ==
    /\ pc = "scrape"
    /\ scrape_requests # << >>
    /\ LET request == Head(scrape_requests)[2]
           taken == Take(request.info_hashes,
                         Min(Len(request.info_hashes), max_scrape_torrents))
           hashes == {taken[k] : k \in 1 .. Len(taken)}
           with_entries == [h \in DOMAIN torrents \cup hashes |->
                              IF h \in DOMAIN torrents THEN torrents[h]
                              ELSE DefaultTorrentData]
       IN  /\ torrents' = with_entries
           /\ out_messages' =
                 Append(out_messages,
                        << Head(scrape_requests)[1],
                           ScrapeResponseFor(with_entries, request) >>)
    /\ scrape_requests' = Tail(scrape_requests)
    /\ UNCHANGED << mutex, channel_vars, now, pc, loop_vars,
                    announce_requests, valid_until >>

HandleScrapeRequest ==
    /\ pc = "scrape"
    /\ scrape_requests # << >>
    /\ out_messages' =
          Append(out_messages,
                 << Head(scrape_requests)[1],
                    ScrapeResponseFor(torrents, Head(scrape_requests)[2]) >>)
    /\ scrape_requests' = Tail(scrape_requests)
    /\ UNCHANGED << torrents, mutex, channel_vars, now, pc, loop_vars,
                    announce_requests, valid_until >>


(***************************************************************************)
(* run_request_worker                                                      *)
(***************************************************************************)

InMessages ==
    [meta : ConnectionMetas, kind : {"AnnounceRequest"}, request : AnnounceRequests]
    \cup [meta : ConnectionMetas, kind : {"ScrapeRequest"}, request : ScrapeRequests]

\* the match on opt_in_message: push onto the buffer of the message's kind
PushAnnounce(buffer, in_message) ==
    IF in_message.kind = "AnnounceRequest"
    THEN Append(buffer, << in_message.meta, in_message.request >>)
    ELSE buffer

PushScrape(buffer, in_message) ==
    IF in_message.kind = "ScrapeRequest"
    THEN Append(buffer, << in_message.meta, in_message.request >>)
    ELSE buffer

\* the for loop with one pass more: 0 ..= max_requests_per_iter
AfterPass_OneMore(n) == IF n < max_requests_per_iter THEN "recv" ELSE "lock"

\* where the worker is after pass i of the for loop ended without a break
AfterPass(n) == IF n + 1 < max_requests_per_iter THEN "recv" ELSE "lock"

\* the body with handle_scrape_requests called before handle_announce_requests
AfterPhase_ScrapesFirst(phase) ==
    CASE phase = "lock" -> "scrape"
      [] phase = "scrape" -> "announce"
      [] phase = "announce" -> "drop"

\* the order of the body once the guard is held: handle_announce_requests,
\* handle_scrape_requests, drop of the guard
AfterPhase(phase) ==
    CASE phase = "lock" -> "announce"
      [] phase = "announce" -> "scrape"
      [] phase = "scrape" -> "drop"

\* recv() or recv_timeout() returned Ok: the message joins its buffer
RecvMessage ==
    /\ pc = "recv"
    /\ in_message_channel # << >>
    /\ in_message_channel' = Tail(in_message_channel)
    /\ announce_requests' = PushAnnounce(announce_requests, Head(in_message_channel))
    /\ scrape_requests' = PushScrape(scrape_requests, Head(in_message_channel))
    /\ received' = Append(received, Head(in_message_channel))
    /\ i' = i + 1
    /\ pc' = AfterPass(i)
    /\ UNCHANGED << torrents, mutex, senders_alive, sent, out_message_channels,
                    now, out_messages, valid_until >>

\* recv() returns Err only once disconnected; recv_timeout() also on a timeout
RecvFails ==
    /\ pc = "recv"
    /\ in_message_channel = << >>
    /\ (i > 0 \/ ~senders_alive)

\* None, and try_lock() succeeds, without the break: the guard is kept and the
\* for loop goes on
RecvNoneTryLockOk_KeepsBatching ==
    /\ pc = "recv"
    /\ in_message_channel = << >>
    /\ (i > 0 \/ ~senders_alive)
    /\ mutex = "free"
    /\ mutex' = "worker"
    /\ i' = i + 1
    /\ pc' = IF i + 1 < max_requests_per_iter THEN "recv" ELSE "announce"
    /\ valid_until' = now + max_peer_age
    /\ UNCHANGED << torrents, channel_vars, now, received, announce_requests,
                    scrape_requests, out_messages >>

\* None, and try_lock() succeeds: break with the guard
RecvNoneTryLockOk ==
    /\ RecvFails
    /\ mutex = "free"
    /\ mutex' = "worker"
    /\ pc' = AfterPhase("lock")
    /\ valid_until' = now + max_peer_age
    /\ UNCHANGED << torrents, channel_vars, now, loop_vars, announce_requests,
                    scrape_requests, out_messages >>

\* None, and try_lock() fails: the batch gathered so far is thrown away
RecvNoneTryLockFails_ClearsBuffers ==
    /\ pc = "recv"
    /\ in_message_channel = << >>
    /\ (i > 0 \/ ~senders_alive)
    /\ mutex # "free"
    /\ i' = i + 1
    /\ pc' = IF i + 1 < max_requests_per_iter THEN "recv" ELSE "lock"
    /\ announce_requests' = << >>
    /\ scrape_requests' = << >>
    /\ UNCHANGED << torrents, mutex, channel_vars, now, received, out_messages,
                    valid_until >>

\* None, and try_lock() fails: next pass of the for loop
RecvNoneTryLockFails ==
    /\ RecvFails
    /\ mutex # "free"
    /\ i' = i + 1
    /\ pc' = AfterPass(i)
    /\ UNCHANGED << torrents, mutex, channel_vars, now, received,
                    announce_requests, scrape_requests, out_messages, valid_until >>

\* the for loop ended without a guard: state.torrents.lock()
BlockingLock ==
    /\ pc = "lock"
    /\ mutex = "free"
    /\ mutex' = "worker"
    /\ pc' = AfterPhase("lock")
    /\ valid_until' = now + max_peer_age
    /\ UNCHANGED << torrents, channel_vars, now, loop_vars, announce_requests,
                    scrape_requests, out_messages >>

\* handle_announce_requests returns
AnnouncesDone ==
    /\ pc = "announce"
    /\ announce_requests = << >>
    /\ pc' = AfterPhase("announce")
    /\ UNCHANGED << torrents, mutex, channel_vars, now, loop_vars,
                    announce_requests, scrape_requests, out_messages, valid_until >>

\* handle_scrape_requests returns
ScrapesDone ==
    /\ pc = "scrape"
    /\ scrape_requests = << >>
    /\ pc' = AfterPhase("scrape")
    /\ UNCHANGED << torrents, mutex, channel_vars, now, loop_vars,
                    announce_requests, scrape_requests, out_messages, valid_until >>

\* ::std::mem::drop(torrent_map_guard)
DropGuard ==
    /\ pc = "drop"
    /\ mutex' = "free"
    /\ pc' = "send"
    /\ UNCHANGED << torrents, channel_vars, now, loop_vars, announce_requests,
                    scrape_requests, out_messages, valid_until >>

\* OutMessageSender::send: onto the channel of the connection's socket worker
ChannelsAfterSend(channels, meta, out_message) ==
    [channels EXCEPT ![meta.worker_index] = Append(@, << meta, out_message >>)]

\* the loop that takes the messages off the back of out_messages
SendOutMessage_FromBack ==
    /\ pc = "send"
    /\ out_messages # << >>
    /\ out_message_channels' =
          ChannelsAfterSend(out_message_channels,
                            out_messages[Len(out_messages)][1],
                            out_messages[Len(out_messages)][2])
    /\ out_messages' = SubSeq(out_messages, 1, Len(out_messages) - 1)
    /\ UNCHANGED << torrents, mutex, in_message_channel, senders_alive, sent,
                    now, pc, loop_vars, announce_requests, scrape_requests,
                    valid_until >>

SendOutMessage ==
    /\ pc = "send"
    /\ out_messages # << >>
    /\ out_message_channels' =
          ChannelsAfterSend(out_message_channels, Head(out_messages)[1],
                            Head(out_messages)[2])
    /\ out_messages' = Tail(out_messages)
    /\ UNCHANGED << torrents, mutex, in_message_channel, senders_alive, sent,
                    now, pc, loop_vars, announce_requests, scrape_requests,
                    valid_until >>

\* out_messages drained: next iteration of the loop
NextIteration ==
    /\ pc = "send"
    /\ out_messages = << >>
    /\ pc' = "recv"
    /\ i' = 0
    /\ received' = << >>
    /\ UNCHANGED << torrents, mutex, channel_vars, now, announce_requests,
                    scrape_requests, out_messages, valid_until >>

(***************************************************************************)
(* Environment of the worker                                               *)
(***************************************************************************)

\* the messages the socket workers send in the worker runs
SocketWorkerMessages ==
    {m \in InMessages :
        \/ /\ m.kind = "AnnounceRequest"
           /\ m.request.info_hash = "A"
           /\ m.request.peer_id = "P"
           /\ << m.request.event, m.request.bytes_left >> \in
                 {<< "Started", 100 >>, << "Empty", 0 >>, << "Stopped", 0 >>}
           /\ m.request.offers = None
           /\ m.request.answer = None
           /\ m.request.to_peer_id = None
           /\ m.request.offer_id = None
        \/ /\ m.kind = "ScrapeRequest"
           /\ m.request.info_hashes \in {<< >>, << "A" >>}}

\* a socket worker sends a parsed message
SocketWorkerSends ==
    /\ senders_alive
    /\ sent < MaxSent
    /\ \E m \in SocketWorkerMessages :
          in_message_channel' = Append(in_message_channel, m)
    /\ sent' = sent + 1
    /\ UNCHANGED << torrents, mutex, senders_alive, out_message_channels, now, pc,
                    loop_vars, announce_requests, scrape_requests, out_messages,
                    valid_until >>

\* the last sender of the inbound channel is dropped
SendersDropped ==
    /\ senders_alive
    /\ senders_alive' = FALSE
    /\ UNCHANGED << torrents, mutex, in_message_channel, sent,
                    out_message_channels, now, pc, loop_vars, announce_requests,
                    scrape_requests, out_messages, valid_until >>

\* a socket worker takes a message off its out channel
SocketWorkerReceives ==
    /\ \E w \in WorkerIndexes :
          /\ out_message_channels[w] # << >>
          /\ out_message_channels' = [out_message_channels EXCEPT ![w] = Tail(@)]
    /\ UNCHANGED << torrents, mutex, in_message_channel, senders_alive, sent, now,
                    pc, loop_vars, announce_requests, scrape_requests,
                    out_messages, valid_until >>

\* another holder of the mutex (a peer sweep) takes and releases it
OtherLocks ==
    /\ mutex = "free"
    /\ mutex' = "other"
    /\ UNCHANGED << torrents, channel_vars, now, pc, loop_vars, announce_requests,
                    scrape_requests, out_messages, valid_until >>

OtherUnlocks ==
    /\ mutex = "other"
    /\ mutex' = "free"
    /\ UNCHANGED << torrents, channel_vars, now, pc, loop_vars, announce_requests,
                    scrape_requests, out_messages, valid_until >>

Tick ==
    /\ now < MaxNow
    /\ now' = now + 1
    /\ UNCHANGED << torrents, mutex, channel_vars, pc, loop_vars,
                    announce_requests, scrape_requests, out_messages, valid_until >>

Init ==
    /\ torrents = << >>
    /\ mutex = "free"
    /\ in_message_channel = << >>
    /\ senders_alive = TRUE
    /\ sent = 0
    /\ out_message_channels = [w \in WorkerIndexes |-> << >>]
    /\ now = 0
    /\ pc = "recv"
    /\ i = 0
    /\ received = << >>
    /\ announce_requests = << >>
    /\ scrape_requests = << >>
    /\ out_messages = << >>
    /\ valid_until = 0

Next ==
    \/ RecvMessage
    \/ RecvNoneTryLockOk
    \/ RecvNoneTryLockFails
    \/ BlockingLock
    \/ HandleAnnounceRequest
    \/ AnnouncesDone
    \/ HandleScrapeRequest
    \/ ScrapesDone
    \/ DropGuard
    \/ SendOutMessage
    \/ NextIteration
    \/ SocketWorkerSends
    \/ SendersDropped
    \/ SocketWorkerReceives
    \/ OtherLocks
    \/ OtherUnlocks
    \/ Tick

Spec == Init /\ [][Next]_vars

(***************************************************************************)
(* The two handlers called directly, one request per call, on the map that *)
(* earlier calls left                                                      *)
(***************************************************************************)

CallHandleAnnounceRequests ==
    /\ pc = "idle"
    /\ \E meta \in ConnectionMetas, request \in AnnounceRequests :
          /\ announce_requests' = << << meta, request >> >>
          /\ received' = << [meta |-> meta, kind |-> "AnnounceRequest",
                              request |-> request] >>
    /\ valid_until' = now + max_peer_age
    /\ pc' = "announce"
    /\ UNCHANGED << torrents, mutex, channel_vars, now, i, scrape_requests,
                    out_messages >>

\* the call returns; the caller takes the messages out of messages_out
ReturnHandleAnnounceRequests ==
    /\ pc = "announce"
    /\ announce_requests = << >>
    /\ pc' = "idle"
    /\ out_messages' = << >>
    /\ received' = << >>
    /\ UNCHANGED << torrents, mutex, channel_vars, now, i, announce_requests,
                    scrape_requests, valid_until >>

CallHandleScrapeRequests ==
    /\ pc = "idle"
    /\ \E meta \in ConnectionMetas, request \in ScrapeRequests :
          /\ scrape_requests' = << << meta, request >> >>
          /\ received' = << [meta |-> meta, kind |-> "ScrapeRequest",
                              request |-> request] >>
    /\ pc' = "scrape"
    /\ UNCHANGED << torrents, mutex, channel_vars, now, i, announce_requests,
                    out_messages, valid_until >>

ReturnHandleScrapeRequests ==
    /\ pc = "scrape"
    /\ scrape_requests = << >>
    /\ pc' = "idle"
    /\ out_messages' = << >>
    /\ received' = << >>
    /\ UNCHANGED << torrents, mutex, channel_vars, now, i, announce_requests,
                    scrape_requests, valid_until >>

HandlersInit ==
    /\ torrents = << >>
    /\ mutex = "worker"
    /\ in_message_channel = << >>
    /\ senders_alive = TRUE
    /\ sent = 0
    /\ out_message_channels = [w \in WorkerIndexes |-> << >>]
    /\ now = 0
    /\ pc = "idle"
    /\ i = 0
    /\ received = << >>
    /\ announce_requests = << >>
    /\ scrape_requests = << >>
    /\ out_messages = << >>
    /\ valid_until = 0

HandlersNext ==
    \/ CallHandleAnnounceRequests
    \/ HandleAnnounceRequest
    \/ ReturnHandleAnnounceRequests
    \/ CallHandleScrapeRequests
    \/ HandleScrapeRequest
    \/ ReturnHandleScrapeRequests

HandlersSpec == HandlersInit /\ [][HandlersNext]_vars


(***************************************************************************)
(* Vocabulary of the properties                                            *)
(***************************************************************************)

(***************************************************************************)
(* handle_announce_requests called on its own with offer-carrying          *)
(* announces of three peers for one torrent, so that the peer set can be   *)
(* larger than max_offers                                                  *)
(***************************************************************************)
RelayPeerIds == PeerIds \cup {"R"}

RelayAnnounceRequests ==
    [info_hash : {"A"},
     peer_id : RelayPeerIds,
     event : AnnounceEvents,
     bytes_left : BytesLeftValues,
     offers : OptionOf(OfferLists),
     answer : {None},
     to_peer_id : {None},
     offer_id : {None}]

CallRelayAnnounce ==
    /\ pc = "idle"
    /\ \E meta \in ConnectionMetas, request \in RelayAnnounceRequests :
          /\ announce_requests' = << << meta, request >> >>
          /\ received' = << [meta |-> meta, kind |-> "AnnounceRequest",
                              request |-> request] >>
    /\ valid_until' = now + max_peer_age
    /\ pc' = "announce"
    /\ UNCHANGED << torrents, mutex, channel_vars, now, i, scrape_requests,
                    out_messages >>

RelayNext ==
    \/ CallRelayAnnounce
    \/ HandleAnnounceRequest
    \/ ReturnHandleAnnounceRequests

RelaySpec == HandlersInit /\ [][RelayNext]_vars

(***************************************************************************)
(* The worker loop with its scheduling: the worker's thread keeps running, *)
(* the blocking lock() gets the mutex when it is free again and again      *)
(* (the mutex hands over to a waiter), and another holder gives the mutex  *)
(* back.                                                                   *)
(***************************************************************************)
WorkerStep ==
    \/ RecvMessage
    \/ RecvNoneTryLockOk
    \/ RecvNoneTryLockFails
    \/ BlockingLock
    \/ HandleAnnounceRequest
    \/ AnnouncesDone
    \/ HandleScrapeRequest
    \/ ScrapesDone
    \/ DropGuard
    \/ SendOutMessage
    \/ NextIteration

FairSpec ==
    /\ Spec
    /\ WF_vars(WorkerStep)
    /\ SF_vars(BlockingLock)
    /\ WF_vars(OtherUnlocks)

PeersWithStatus(torrent_data, status) ==
    {p \in DOMAIN torrent_data.peers : torrent_data.peers[p].status = status}

\* a counter of a torrent that may not have an entry yet
SeedersOf(tmap, h) == IF h \in DOMAIN tmap THEN tmap[h].num_seeders ELSE 0
LeechersOf(tmap, h) == IF h \in DOMAIN tmap THEN tmap[h].num_leechers ELSE 0
PeerIdsOf(tmap, h) == IF h \in DOMAIN tmap THEN DOMAIN tmap[h].peers ELSE {}

\* this step is one pass of the for loop of handle_announce_requests
AnnounceHandled ==
    /\ pc = "announce"
    /\ announce_requests # << >>
    /\ announce_requests' = Tail(announce_requests)

\* this step is one request of the drain of handle_scrape_requests
ScrapeHandled ==
    /\ pc = "scrape"
    /\ scrape_requests # << >>
    /\ scrape_requests' = Tail(scrape_requests)

\* the request the next pass handles, and its sender
SenderMeta == Head(announce_requests)[1]
Request == Head(announce_requests)[2]

\* the record stored for the request's (info_hash, peer_id), if any
HasRecord == Request.peer_id \in PeerIdsOf(torrents, Request.info_hash)
Record == torrents[Request.info_hash].peers[Request.peer_id]

\* the address check rejects the request
Rejected == HasRecord /\ Record.connection_meta.peer_addr # SenderMeta.peer_addr
Accepted == ~Rejected

\* the messages a step appended to out_messages
Appended == SubSeq(out_messages', Len(out_messages) + 1, Len(out_messages'))
AppendsOnly ==
    /\ Len(out_messages') >= Len(out_messages)
    /\ SubSeq(out_messages', 1, Len(out_messages)) = out_messages

\* 1 when the status counts for the counter, else 0
Unit(cond) == IF cond THEN 1 ELSE 0

\* the status the rule of the data model gives
RuleStatus(event, bytes_left) ==
    CASE event = "Stopped" -> "Stopped"
      [] event # "Stopped" /\ bytes_left = 0 -> "Seeding"
      [] OTHER -> "Leeching"

\* a handler has worked through its call's request
AfterAnnounceCall ==
    /\ pc = "announce"
    /\ announce_requests = << >>
    /\ Len(received) = 1
    /\ received[1].kind = "AnnounceRequest"

AfterScrapeCall ==
    /\ pc = "scrape"
    /\ scrape_requests = << >>
    /\ Len(received) = 1
    /\ received[1].kind = "ScrapeRequest"

(***************************************************************************)
(* C1: for every torrent, at every point, num_seeders is the number of     *)
(* peers of its peer set with status Seeding and num_leechers the number   *)
(* with status Leeching, whatever announces and scrapes were handled,      *)
(* rejected announces included.                                            *)
(***************************************************************************)
C1_CountersMatchPeerSet ==
    \A h \in DOMAIN torrents :
        /\ torrents[h].num_seeders =
              Cardinality(PeersWithStatus(torrents[h], "Seeding"))
        /\ torrents[h].num_leechers =
              Cardinality(PeersWithStatus(torrents[h], "Leeching"))

\* an announce was just rejected on a torrent holding a seeder and a leecher
C1_Witness ==
    /\ AfterAnnounceCall
    /\ out_messages = << >>
    /\ LET h == received[1].request.info_hash
       IN  /\ torrents[h].num_seeders = 1
           /\ torrents[h].num_leechers = 1

(***************************************************************************)
(* C2: an announce for a pair that has a record under another sender       *)
(* address changes nothing and produces no message; and a record is        *)
(* changed or removed only by an announce for its pair sent from the       *)
(* address stored in it.                                                   *)
(***************************************************************************)
C2_RejectedStep ==
    (AnnounceHandled /\ Rejected) =>
        /\ torrents' = torrents
        /\ out_messages' = out_messages

C2_RecordTouchedOnlyFromItsAddress ==
    \A h \in DOMAIN torrents :
        \A p \in DOMAIN torrents[h].peers :
            (\/ p \notin PeerIdsOf(torrents', h)
             \/ torrents'[h].peers[p] # torrents[h].peers[p])
            => /\ AnnounceHandled
               /\ Request.info_hash = h
               /\ Request.peer_id = p
               /\ SenderMeta.peer_addr = torrents[h].peers[p].connection_meta.peer_addr

C2_MismatchedAnnounceDropped ==
    [][C2_RejectedStep /\ C2_RecordTouchedOnlyFromItsAddress]_vars

\* a rejected announce that carried offers and a complete answer was handled
C2_Witness ==
    /\ AfterAnnounceCall
    /\ out_messages = << >>
    /\ LET r == received[1].request
       IN  /\ IsSome(r.offers) /\ Len(Unwrap(r.offers)) >= 1
           /\ IsSome(r.answer) /\ IsSome(r.to_peer_id) /\ IsSome(r.offer_id)
           /\ Unwrap(r.to_peer_id) \in DOMAIN torrents[r.info_hash].peers
           /\ r.peer_id \in DOMAIN torrents[r.info_hash].peers
           /\ torrents[r.info_hash].peers[r.peer_id].connection_meta.peer_addr
                 # received[1].meta.peer_addr

(***************************************************************************)
(* C3: after a peer's announce with event Stopped, the peer (the peer id   *)
(* at the sender's address) has no record in the torrent's peer set, and   *)
(* no record under its peer id at all when the announce passed the address *)
(* check; the counter of the status its record had went down by exactly    *)
(* one, and nothing else moved: without a record of its own both counters  *)
(* are as before.                                                          *)
(***************************************************************************)
C3_StoppedStep ==
    (AnnounceHandled /\ Request.event = "Stopped") =>
        LET h == Request.info_hash
            p == Request.peer_id
            own == HasRecord /\ Accepted
            was_seeding == own /\ Record.status = "Seeding"
            was_leeching == own /\ Record.status = "Leeching"
        IN  /\ h \in DOMAIN torrents'
            /\ ~(/\ p \in DOMAIN torrents'[h].peers
                 /\ torrents'[h].peers[p].connection_meta.peer_addr
                       = SenderMeta.peer_addr)
            /\ Accepted => p \notin DOMAIN torrents'[h].peers
            /\ torrents'[h].num_seeders = SeedersOf(torrents, h) - Unit(was_seeding)
            /\ torrents'[h].num_leechers = LeechersOf(torrents, h) - Unit(was_leeching)
            /\ was_seeding \/ was_leeching \/ ~own

C4_AcceptedStep ==
    (AnnounceHandled /\ Accepted) =>
        LET h == Request.info_hash
            p == Request.peer_id
            status == RuleStatus(Request.event, Request.bytes_left)
            old_seeding == HasRecord /\ Record.status = "Seeding"
            old_leeching == HasRecord /\ Record.status = "Leeching"
        IN  /\ status = "Stopped" <=> Request.event = "Stopped"
            /\ status = "Seeding" <=>
                  (Request.event # "Stopped" /\ Request.bytes_left = 0)
            /\ IF status = "Stopped"
               THEN p \notin DOMAIN torrents'[h].peers
               ELSE /\ p \in DOMAIN torrents'[h].peers
                    /\ torrents'[h].peers[p].status = status
            /\ torrents'[h].num_seeders + Unit(old_seeding)
                  = SeedersOf(torrents, h) + Unit(status = "Seeding")
            /\ torrents'[h].num_leechers + Unit(old_leeching)
                  = LeechersOf(torrents, h) + Unit(status = "Leeching")

C4_StatusFromEventAndBytesLeft == [][C4_AcceptedStep]_vars

\* event Completed with bytes left was handled: the peer is stored as a leecher
C4_Witness ==
    /\ AfterAnnounceCall
    /\ received[1].request.event = "Completed"
    /\ received[1].request.bytes_left = 100
    /\ LET r == received[1].request
       IN  /\ r.peer_id \in DOMAIN torrents[r.info_hash].peers
           /\ torrents[r.info_hash].peers[r.peer_id].status = "Leeching"
           /\ torrents[r.info_hash].num_leechers = 1
           /\ Len(out_messages) >= 1

(***************************************************************************)
(* C5: an announce that passes the address check appends exactly one       *)
(* AnnounceResponse, after its relay messages; it goes to the sender's     *)
(* connection and carries the request's info hash, the configured announce *)
(* interval and the torrent's counters as this request left them, also for *)
(* event Stopped and when no relay message is produced.                    *)
(***************************************************************************)
C5_AcceptedStep ==
    (AnnounceHandled /\ Accepted) =>
        LET h == Request.info_hash
            responses == {k \in DOMAIN Appended :
                            Appended[k][2].type = "AnnounceResponse"}
        IN  /\ AppendsOnly
            /\ responses = {Len(Appended)}
            /\ Appended[Len(Appended)][1] = SenderMeta
            /\ Appended[Len(Appended)][2] =
                  [type |-> "AnnounceResponse",
                   info_hash |-> h,
                   complete |-> torrents'[h].num_seeders,
                   incomplete |-> torrents'[h].num_leechers,
                   announce_interval |-> peer_announce_interval]

C5_OneAnnounceResponse == [][C5_AcceptedStep]_vars

\* a Stopped announce whose answer names a peer that is not there was handled:
\* the response to the sender is the only message
C5_Witness ==
    /\ AfterAnnounceCall
    /\ LET r == received[1].request
       IN  /\ r.event = "Stopped"
           /\ IsSome(r.answer) /\ IsSome(r.to_peer_id) /\ IsSome(r.offer_id)
           /\ Unwrap(r.to_peer_id) \notin DOMAIN torrents[r.info_hash].peers
           /\ torrents[r.info_hash].num_seeders = 1
           /\ Len(out_messages) = 1
           /\ out_messages[1][1] = received[1].meta
           /\ out_messages[1][2].type = "AnnounceResponse"
           /\ out_messages[1][2].complete = 1

(***************************************************************************)
(* C6: a re-announce from the same address replaces the peer's record.     *)
(* On an empty torrent, P with Started and 100 bytes left gives one        *)
(* leecher and no seeder; P alone as a leecher announcing 0 bytes left     *)
(* gives no leecher, one seeder, one peer; P alone as a seeder announcing  *)
(* Stopped gives no seeder and an empty peer set. A change of status of an *)
(* existing peer moves one unit from the old counter to the new one.       *)
(***************************************************************************)
C6_ScenarioStep ==
    (AnnounceHandled /\ Accepted) =>
        LET h == Request.info_hash
            p == Request.peer_id
            alone == PeerIdsOf(torrents, h) = {p}
        IN  /\ (/\ PeerIdsOf(torrents, h) = {}
                /\ Request.event = "Started"
                /\ Request.bytes_left = 100)
               => /\ torrents'[h].num_leechers = 1
                  /\ torrents'[h].num_seeders = 0
                  /\ DOMAIN torrents'[h].peers = {p}
            /\ (/\ alone
                /\ Record.status = "Leeching"
                /\ Request.event # "Stopped"
                /\ Request.bytes_left = 0)
               => /\ torrents'[h].num_leechers = 0
                  /\ torrents'[h].num_seeders = 1
                  /\ DOMAIN torrents'[h].peers = {p}
            /\ (/\ alone
                /\ Record.status = "Seeding"
                /\ Request.event = "Stopped")
               => /\ torrents'[h].num_seeders = 0
                  /\ torrents'[h].num_leechers = 0
                  /\ torrents'[h].peers = << >>

C6_StatusChangeStep ==
    (AnnounceHandled /\ Accepted /\ HasRecord /\ Request.event # "Stopped") =>
        LET h == Request.info_hash
            p == Request.peer_id
            to_seeding == Record.status = "Leeching" /\ Request.bytes_left = 0
            to_leeching == Record.status = "Seeding" /\ Request.bytes_left # 0
        IN  /\ DOMAIN torrents'[h].peers = DOMAIN torrents[h].peers
            /\ torrents'[h].num_seeders =
                  torrents[h].num_seeders + Unit(to_seeding) - Unit(to_leeching)
            /\ torrents'[h].num_leechers =
                  torrents[h].num_leechers + Unit(to_leeching) - Unit(to_seeding)

C6_ReannounceReplaces == [][C6_ScenarioStep /\ C6_StatusChangeStep]_vars

\* the last step of the scenario is about to run: P, alone in its torrent as
\* a seeder, announces Stopped from the address of its record
C6_Witness ==
    /\ pc = "announce"
    /\ announce_requests # << >>
    /\ Request.peer_id = "P"
    /\ Request.event = "Stopped"
    /\ HasRecord
    /\ Accepted
    /\ DOMAIN torrents[Request.info_hash].peers = {"P"}
    /\ Record.status = "Seeding"
    /\ torrents[Request.info_hash].num_seeders = 1
    /\ torrents[Request.info_hash].num_leechers = 0

(***************************************************************************)
(* C10: a scrape request appends exactly one message, a ScrapeResponse to  *)
(* its sender; its files are the info hashes taken from the request (the   *)
(* first max_scrape_torrents) that have an entry in the map, each with     *)
(* complete = num_seeders, downloaded = 0, incomplete = num_leechers of    *)
(* that entry; a hash without an entry is left out, and an empty list      *)
(* gives an empty mapping.                                                 *)
(***************************************************************************)
C10_ScrapeStep ==
    ScrapeHandled =>
        LET meta == Head(scrape_requests)[1]
            info_hashes == Head(scrape_requests)[2].info_hashes
            taken == {info_hashes[k] : k \in {n \in DOMAIN info_hashes :
                                                n <= max_scrape_torrents}}
        IN  /\ AppendsOnly
            /\ Len(Appended) = 1
            /\ Appended[1][1] = meta
            /\ Appended[1][2].type = "ScrapeResponse"
            /\ DOMAIN Appended[1][2].files = taken \cap DOMAIN torrents
            /\ \A h \in DOMAIN Appended[1][2].files :
                  Appended[1][2].files[h] =
                      [complete |-> torrents[h].num_seeders,
                       downloaded |-> 0,
                       incomplete |-> torrents[h].num_leechers]
            /\ info_hashes = << >> => Appended[1][2].files = << >>

C10_ScrapeResponseFiles == [][C10_ScrapeStep]_vars

\* a scrape of a known and an unknown hash was handled: only the known one is
\* in the files
C10_Witness ==
    /\ AfterScrapeCall
    /\ received[1].request.info_hashes = << "A", "B" >>
    /\ DOMAIN torrents = {"A"}
    /\ torrents["A"].num_seeders = 1
    /\ Len(out_messages) = 1
    /\ DOMAIN out_messages[1][2].files = {"A"}
    /\ out_messages[1][2].files["A"].complete = 1

\* a scrape with an empty list was handled while torrents exist
C10_WitnessEmptyList ==
    /\ AfterScrapeCall
    /\ received[1].request.info_hashes = << >>
    /\ DOMAIN torrents # {}
    /\ Len(out_messages) = 1
    /\ out_messages[1][2].files = << >>


(***************************************************************************)
(* C7: in one batch of run_request_worker every buffered announce is       *)
(* applied before any buffered scrape, in whatever order they were         *)
(* received: when a scrape is handled no announce of the batch is left,    *)
(* no announce output follows a ScrapeResponse, and every ScrapeResponse   *)
(* of the batch reports the counters the batch's announces left.           *)
(***************************************************************************)
C7_AnnouncesBeforeScrapes ==
    /\ pc = "scrape" => announce_requests = << >>
    /\ \A k \in DOMAIN out_messages :
          out_messages[k][2].type = "ScrapeResponse" =>
             /\ announce_requests = << >>
             /\ \A j \in DOMAIN out_messages :
                   j > k => out_messages[j][2].type = "ScrapeResponse"
             /\ \A h \in DOMAIN out_messages[k][2].files :
                   /\ h \in DOMAIN torrents
                   /\ out_messages[k][2].files[h].complete = torrents[h].num_seeders
                   /\ out_messages[k][2].files[h].incomplete = torrents[h].num_leechers

\* the only two messages sent, a scrape of A and then the first announce for A,
\* were handled in one batch: the scrape reports the seeder the announce added
C7_Witness ==
    /\ pc = "drop"
    /\ sent = 2
    /\ Len(received) = 2
    /\ received[1].kind = "ScrapeRequest"
    /\ received[1].request.info_hashes = << "A" >>
    /\ received[2].kind = "AnnounceRequest"
    /\ received[2].request.info_hash = "A"
    /\ received[2].request.bytes_left = 0
    /\ received[2].request.event = "Empty"
    /\ Len(out_messages) = 2
    /\ out_messages[1][2].type = "AnnounceResponse"
    /\ out_messages[2][2].type = "ScrapeResponse"
    /\ out_messages[2][2].files["A"].complete = 1

(***************************************************************************)
(* C8: no request is lost to the batch-fill timeout or to a failed         *)
(* try_lock. An iteration starts with empty buffers; until the handlers    *)
(* run, the buffers hold exactly the messages received in the iteration;   *)
(* a buffer only shrinks by a handler taking its head, once; the buffers   *)
(* are empty when the guard is dropped; every scrape and every announce    *)
(* that passes the address check appends its response, and an announce     *)
(* appends nothing only when the address check rejects it.                 *)
(***************************************************************************)
ReceivedOfKind(kind) ==
    LET of_kind == SelectSeq(received, LAMBDA m : m.kind = kind)
    IN  [k \in DOMAIN of_kind |-> << of_kind[k].meta, of_kind[k].request >>]

IsSuffix(s, t) ==
    /\ Len(s) <= Len(t)
    /\ s = SubSeq(t, Len(t) - Len(s) + 1, Len(t))

C8_Buffers ==
    /\ (pc = "recv" /\ i = 0) =>
          /\ announce_requests = << >>
          /\ scrape_requests = << >>
          /\ received = << >>
    /\ pc \in {"recv", "lock"} =>
          /\ announce_requests = ReceivedOfKind("AnnounceRequest")
          /\ scrape_requests = ReceivedOfKind("ScrapeRequest")
    /\ pc = "announce" =>
          /\ IsSuffix(announce_requests, ReceivedOfKind("AnnounceRequest"))
          /\ scrape_requests = ReceivedOfKind("ScrapeRequest")
    /\ pc = "scrape" =>
          /\ announce_requests = << >>
          /\ IsSuffix(scrape_requests, ReceivedOfKind("ScrapeRequest"))
    /\ pc \in {"drop", "send"} =>
          /\ announce_requests = << >>
          /\ scrape_requests = << >>

C8_Step ==
    /\ in_message_channel' # in_message_channel /\ Len(in_message_channel') < Len(in_message_channel)
          => /\ pc = "recv"
             /\ received' = Append(received, Head(in_message_channel))
    /\ received' # received =>
          \/ /\ in_message_channel # << >>
             /\ received' = Append(received, Head(in_message_channel))
          \/ (received' = << >> /\ pc = "send" /\ out_messages = << >>)
    /\ announce_requests' # announce_requests /\ pc # "recv" => AnnounceHandled
    /\ scrape_requests' # scrape_requests /\ pc # "recv" => ScrapeHandled
    /\ AnnounceHandled =>
          /\ AppendsOnly
          /\ Rejected <=> Appended = << >>
          /\ Accepted => Appended[Len(Appended)][2].type = "AnnounceResponse"
    /\ ScrapeHandled =>
          /\ AppendsOnly
          /\ Len(Appended) = 1
          /\ Appended[1][2].type = "ScrapeResponse"

C8_NoRequestLost == []C8_Buffers /\ [][C8_Step]_vars

\* a pull timed out and try_lock failed in this iteration, and the request
\* received before that was handled and has its response
C8_Witness ==
    /\ pc = "drop"
    /\ i = max_requests_per_iter
    /\ Len(received) = 1
    /\ Len(out_messages) = 1
    /\ out_messages[1][1] = received[1].meta

(***************************************************************************)
(* C9: once the inbound channel is disconnected (no sender left, nothing   *)
(* queued), a receive of the request worker ends its loop: the worker      *)
(* takes no further step of the loop.                                      *)
(***************************************************************************)
ObservesDisconnect ==
    /\ pc = "recv"
    /\ in_message_channel = << >>
    /\ ~senders_alive

C9_WorkerEndsOnDisconnect ==
    [][(ObservesDisconnect /\ << pc, i, mutex >>' # << pc, i, mutex >>)
          => pc' = "returned"]_vars


(***************************************************************************)
(* C11: a scrape request with more info hashes than max_scrape_torrents is *)
(* answered, not rejected, with statistics for the first                   *)
(* max_scrape_torrents hashes only: every one of those that has an entry   *)
(* is in the files, and a hash at a later position is in the files only    *)
(* if it also stands among the first max_scrape_torrents.                  *)
(***************************************************************************)
C11_LongScrapeStep ==
    (ScrapeHandled /\ Len(Head(scrape_requests)[2].info_hashes) > max_scrape_torrents) =>
        LET info_hashes == Head(scrape_requests)[2].info_hashes
            files == Appended[1][2].files
        IN  /\ Len(Appended) = 1
            /\ Appended[1][1] = Head(scrape_requests)[1]
            /\ Appended[1][2].type = "ScrapeResponse"
            /\ \A k \in 1 .. max_scrape_torrents :
                  info_hashes[k] \in DOMAIN torrents => info_hashes[k] \in DOMAIN files
            /\ \A k \in (max_scrape_torrents + 1) .. Len(info_hashes) :
                  info_hashes[k] \in DOMAIN files =>
                     \E j \in 1 .. max_scrape_torrents : info_hashes[j] = info_hashes[k]
            /\ Cardinality(DOMAIN files) <= max_scrape_torrents

C11_ScrapeTruncated == [][C11_LongScrapeStep]_vars

\* a scrape of A, A, B was handled while both torrents have entries: the third
\* hash, B, is not in the files
C11_Witness ==
    /\ AfterScrapeCall
    /\ received[1].request.info_hashes = << "A", "A", "B" >>
    /\ DOMAIN torrents = {"A", "B"}
    /\ Len(out_messages) = 1
    /\ DOMAIN out_messages[1][2].files = {"A"}

(***************************************************************************)
(* C12: an accepted announce with k offers, on a torrent whose peer set    *)
(* has n members after the announcer's own update, appends exactly         *)
(* min(k, max_offers, n) Offer messages, before its other messages. The    *)
(* i-th carries the i-th offer and offer id of the request, the info hash  *)
(* and the announcer's peer id, and the messages are addressed to the      *)
(* stored connection metadata of pairwise distinct members of that peer    *)
(* set. An announce without offers appends none.                           *)
(***************************************************************************)
OffersOf(request) ==
    IF IsSome(request.offers) THEN Unwrap(request.offers) ELSE << >>

OffersAppended == SelectSeq(Appended, LAMBDA m : m[2].type = "Offer")

\* the messages go to the stored metadata of distinct members of peers
ToDistinctMembers(messages, peers) ==
    \E targets \in [DOMAIN messages -> DOMAIN peers] :
        /\ \A j, k \in DOMAIN messages : targets[j] = targets[k] => j = k
        /\ \A k \in DOMAIN messages : messages[k][1] = peers[targets[k]].connection_meta

C12_OfferStep ==
    (AnnounceHandled /\ Accepted) =>
        LET h == Request.info_hash
            offers == OffersOf(Request)
            peers == torrents'[h].peers
            count == Min(Len(offers), Min(max_offers, Cardinality(DOMAIN peers)))
        IN  /\ Len(OffersAppended) = count
            /\ SubSeq(Appended, 1, count) = OffersAppended
            /\ \A k \in 1 .. count :
                  OffersAppended[k][2] =
                      [type |-> "Offer",
                       info_hash |-> h,
                       peer_id |-> Request.peer_id,
                       offer |-> offers[k].offer,
                       offer_id |-> offers[k].offer_id]
            /\ ToDistinctMembers(OffersAppended, peers)

C12_OffersRelayed == [][C12_OfferStep]_vars

\* an announce with three offers was handled on a torrent of three peers: two
\* Offer messages, with the first two offers, went to different connections
C12_Witness ==
    /\ AfterAnnounceCall
    /\ Len(OffersOf(received[1].request)) = 3
    /\ Cardinality(DOMAIN torrents["A"].peers) = 3
    /\ Len(out_messages) = 3
    /\ out_messages[1][2].type = "Offer" /\ out_messages[1][2].offer_id = 1
    /\ out_messages[2][2].type = "Offer" /\ out_messages[2][2].offer_id = 2
    /\ out_messages[1][1] # out_messages[2][1]
    /\ out_messages[3][2].type = "AnnounceResponse"

(***************************************************************************)
(* C13: an accepted announce appends an Answer message exactly when its    *)
(* answer, to_peer_id and offer_id are all present and to_peer_id is in    *)
(* the torrent's peer set after the announcer's own update. The message    *)
(* goes to the stored connection metadata of that peer and carries the     *)
(* announcer's peer id, the info hash, the answer and the offer id. In     *)
(* every other case no Answer is appended and the announce still gets its  *)
(* AnnounceResponse.                                                       *)
(***************************************************************************)
AnswersAppended == SelectSeq(Appended, LAMBDA m : m[2].type = "Answer")

C13_AnswerStep ==
    (AnnounceHandled /\ Accepted) =>
        LET h == Request.info_hash
            peers == torrents'[h].peers
            relayed == /\ IsSome(Request.answer)
                       /\ IsSome(Request.to_peer_id)
                       /\ IsSome(Request.offer_id)
                       /\ Unwrap(Request.to_peer_id) \in DOMAIN peers
        IN  /\ Len(AnswersAppended) = Unit(relayed)
            /\ relayed =>
                  /\ AnswersAppended[1] =
                        << peers[Unwrap(Request.to_peer_id)].connection_meta,
                           [type |-> "Answer",
                            peer_id |-> Request.peer_id,
                            info_hash |-> h,
                            answer |-> Unwrap(Request.answer),
                            offer_id |-> Unwrap(Request.offer_id)] >>
                  /\ Appended[Len(Appended) - 1] = AnswersAppended[1]
            /\ Appended # << >>
            /\ Appended[Len(Appended)][2].type = "AnnounceResponse"

C13_AnswerRelayed == [][C13_AnswerStep]_vars

\* P's announce with a complete answer for Q was handled, Q being stored under
\* another address than P's: the Answer went to Q's connection, then the
\* response to P's
C13_Witness ==
    /\ AfterAnnounceCall
    /\ LET r == received[1].request
       IN  /\ r.peer_id = "P"
           /\ r.to_peer_id = Some("Q")
           /\ IsSome(r.answer) /\ IsSome(r.offer_id)
           /\ "Q" \in DOMAIN torrents[r.info_hash].peers
           /\ torrents[r.info_hash].peers["Q"].connection_meta # received[1].meta
           /\ Len(out_messages) = 2
           /\ out_messages[1][2].type = "Answer"
           /\ out_messages[1][2].peer_id = "P"
           /\ out_messages[1][1] = torrents[r.info_hash].peers["Q"].connection_meta
           /\ out_messages[2][2].type = "AnnounceResponse"
           /\ out_messages[2][1] = received[1].meta

(***************************************************************************)
(* C15: a torrent entry is created by the first announce for its info      *)
(* hash, whatever the event, and by nothing else; no step removes an       *)
(* entry, so the set of known info hashes never shrinks. After its last    *)
(* peer left with Stopped the entry is still there, with an empty peer set *)
(* and both counters zero.                                                 *)
(***************************************************************************)
C15_EntryStep ==
    /\ DOMAIN torrents \subseteq DOMAIN torrents'
    /\ DOMAIN torrents' # DOMAIN torrents =>
          /\ AnnounceHandled
          /\ DOMAIN torrents' = DOMAIN torrents \cup {Request.info_hash}
    /\ AnnounceHandled =>
          LET h == Request.info_hash
          IN  /\ h \in DOMAIN torrents'
              /\ (/\ Accepted
                  /\ Request.event = "Stopped"
                  /\ PeerIdsOf(torrents, h) \subseteq {Request.peer_id})
                 => torrents'[h] = [peers |-> << >>, num_seeders |-> 0,
                                    num_leechers |-> 0]

C15_EntriesNeverRemoved == [][C15_EntryStep]_vars

\* a Stopped announce for B was handled and B's entry is there without peers,
\* next to A's entry with a peer
C15_Witness ==
    /\ AfterAnnounceCall
    /\ received[1].request.event = "Stopped"
    /\ received[1].request.info_hash = "B"
    /\ DOMAIN torrents = {"A", "B"}
    /\ torrents["B"] = [peers |-> << >>, num_seeders |-> 0, num_leechers |-> 0]
    /\ torrents["A"].peers # << >>
    /\ Len(out_messages) = 1
    /\ out_messages[1][2].complete = 0
    /\ out_messages[1][2].incomplete = 0

(***************************************************************************)
(* C18: scrape processing leaves the torrent map as it is: no peer set and *)
(* no counter changes while handle_scrape_requests runs, and no entry is   *)
(* created for a scraped info hash that has none, so that hash is in no    *)
(* response however often it is scraped.                                   *)
(***************************************************************************)
C18_ScrapeFrameStep ==
    /\ pc = "scrape" => torrents' = torrents
    /\ ScrapeHandled =>
          LET info_hashes == Head(scrape_requests)[2].info_hashes
          IN  \A k \in DOMAIN info_hashes :
                  info_hashes[k] \notin DOMAIN torrents =>
                      /\ info_hashes[k] \notin DOMAIN torrents'
                      /\ info_hashes[k] \notin DOMAIN Appended[1][2].files

C18_ScrapeChangesNothing == [][C18_ScrapeFrameStep]_vars

\* B, which has no entry, was scraped twice in one request while A has peers:
\* the files are empty and B has no entry
C18_Witness ==
    /\ AfterScrapeCall
    /\ received[1].request.info_hashes = << "B", "B" >>
    /\ DOMAIN torrents = {"A"}
    /\ torrents["A"].peers # << >>
    /\ Len(out_messages) = 1
    /\ out_messages[1][2].files = << >>

(***************************************************************************)
(* C19: no record with status Stopped is stored: in every state every peer *)
(* of every torrent is Seeding or Leeching, the size of the peer set is    *)
(* num_seeders + num_leechers, and no counter is below zero, which a       *)
(* decrement of a counter at zero would make it.                           *)
(***************************************************************************)
C19_NoStoppedStored ==
    \A h \in DOMAIN torrents :
        /\ \A p \in DOMAIN torrents[h].peers :
              torrents[h].peers[p].status \in {"Seeding", "Leeching"}
        /\ Cardinality(DOMAIN torrents[h].peers)
              = torrents[h].num_seeders + torrents[h].num_leechers
        /\ torrents[h].num_seeders >= 0
        /\ torrents[h].num_leechers >= 0

\* a Stopped announce was handled on a torrent that held two peers: the
\* one peer left is counted once
C19_Witness ==
    /\ AfterAnnounceCall
    /\ received[1].request.event = "Stopped"
    /\ Len(out_messages) = 1
    /\ LET h == received[1].request.info_hash
       IN  /\ Cardinality(DOMAIN torrents[h].peers) = 1
           /\ received[1].request.peer_id \notin DOMAIN torrents[h].peers
           /\ torrents[h].num_seeders + torrents[h].num_leechers = 1

(***************************************************************************)
(* C20: the peers for the offers are picked from the peer set as the       *)
(* announce left it, the announcer included. An accepted announce with at  *)
(* least one offer and an event other than Stopped, from a peer that is    *)
(* then the only member of the torrent, appends exactly one Offer message, *)
(* with the first offer, addressed to the announcer's own connection.      *)
(* With event Stopped the announcer is not in the set picked from: alone,  *)
(* it gets no Offer message at all.                                        *)
(***************************************************************************)
C20_SelfRelayStep ==
    (AnnounceHandled /\ Accepted /\ Len(OffersOf(Request)) >= 1) =>
        LET h == Request.info_hash
            p == Request.peer_id
            offers == OffersOf(Request)
            no_other == PeerIdsOf(torrents, h) \subseteq {p}
        IN  /\ (Request.event # "Stopped" /\ no_other) =>
                  OffersAppended =
                     << << SenderMeta,
                           [type |-> "Offer",
                            info_hash |-> h,
                            peer_id |-> p,
                            offer |-> offers[1].offer,
                            offer_id |-> offers[1].offer_id] >> >>
            /\ Request.event = "Stopped" =>
                  /\ p \notin DOMAIN torrents'[h].peers
                  /\ ToDistinctMembers(OffersAppended, torrents'[h].peers)
                  /\ no_other => OffersAppended = << >>

C20_NoSelfExclusion == [][C20_SelfRelayStep]_vars

\* P, alone in its torrent, announced two offers without Stopped: the first
\* offer came back to P's connection, followed by the response
C20_Witness ==
    /\ AfterAnnounceCall
    /\ LET r == received[1].request
       IN  /\ r.peer_id = "P"
           /\ r.event = "Started"
           /\ Len(OffersOf(r)) = 2
           /\ DOMAIN torrents[r.info_hash].peers = {"P"}
           /\ Len(out_messages) = 2
           /\ out_messages[1][1] = received[1].meta
           /\ out_messages[1][2].type = "Offer"
           /\ out_messages[1][2].peer_id = "P"
           /\ out_messages[1][2].offer_id = 1
           /\ out_messages[2][2].type = "AnnounceResponse"

(***************************************************************************)
(* C14: the messages for one connection reach the channel of its socket    *)
(* worker in the order the request worker appended them to out_messages,   *)
(* within a batch and across batches. For each connection, the messages    *)
(* in its worker's channel followed by those still in out_messages form    *)
(* one queue: a step leaves it alone, adds at its end (a handler appends)  *)
(* or takes its head (the socket worker receives); a send moves the head   *)
(* of out_messages to the end of the channel.                              *)
(***************************************************************************)
MessagesFor(messages, meta) == SelectSeq(messages, LAMBDA m : m[1] = meta)

\* what is on its way to the connection: sent and not yet received, then buffered
Pending(meta) ==
    MessagesFor(out_message_channels[meta.worker_index], meta)
    \o MessagesFor(out_messages, meta)

IsPrefix(s, t) == Len(s) <= Len(t) /\ s = SubSeq(t, 1, Len(s))

C14_Step ==
    /\ \A meta \in ConnectionMetas :
          \/ IsPrefix(Pending(meta), Pending(meta)')
          \/ /\ Pending(meta) # << >>
             /\ Pending(meta)' = Tail(Pending(meta))
             /\ out_message_channels[meta.worker_index] # << >>
             /\ Head(out_message_channels[meta.worker_index]) = Head(Pending(meta))
             /\ out_messages' = out_messages
    /\ \A w \in WorkerIndexes :
          Len(out_message_channels'[w]) > Len(out_message_channels[w]) =>
             /\ pc = "send"
             /\ out_messages # << >>
             /\ Head(out_messages)[1].worker_index = w
             /\ out_message_channels'[w] =
                   Append(out_message_channels[w], Head(out_messages))
             /\ out_messages' = Tail(out_messages)

C14_OrderPreserved == [][C14_Step]_vars

\* a scrape and then an announce of one connection were received in one batch:
\* the channel holds the AnnounceResponse, appended first, before the
\* ScrapeResponse
C14_Witness ==
    /\ pc = "send"
    /\ out_messages = << >>
    /\ Len(received) = 2
    /\ received[1].kind = "ScrapeRequest"
    /\ received[2].kind = "AnnounceRequest"
    /\ received[1].meta = received[2].meta
    /\ Len(out_message_channels[0]) = 2
    /\ out_message_channels[0][1][1] = received[1].meta
    /\ out_message_channels[0][1][2].type = "AnnounceResponse"
    /\ out_message_channels[0][2][1] = received[1].meta
    /\ out_message_channels[0][2][2].type = "ScrapeResponse"

(***************************************************************************)
(* C16: while the request worker holds the mutex it does nothing on a      *)
(* channel. It holds the mutex only while the handlers run and until the   *)
(* guard is dropped; a successful try_lock ends the batching at once, with *)
(* nothing more received in the iteration; nothing is received from the    *)
(* inbound channel and nothing is sent on an out channel by a step that    *)
(* starts or ends with the worker holding the mutex; the guard is dropped  *)
(* before the first send of the batch.                                     *)
(***************************************************************************)
C16_HoldsOnlyInHandlers ==
    /\ mutex = "worker" => pc \in {"announce", "scrape", "drop"}
    /\ pc \in {"recv", "lock", "send"} => mutex # "worker"

C16_Step ==
    /\ Len(in_message_channel') < Len(in_message_channel) =>
          mutex # "worker" /\ mutex' # "worker"
    /\ (\E w \in WorkerIndexes :
           Len(out_message_channels'[w]) > Len(out_message_channels[w])) =>
          mutex # "worker" /\ mutex' # "worker"
    /\ (pc = "recv" /\ mutex # "worker" /\ mutex' = "worker") =>
          /\ pc' = "announce"
          /\ received' = received
          /\ in_message_channel' = in_message_channel
          /\ i' = i
    /\ (mutex = "worker" /\ mutex' # "worker") =>
          /\ pc = "drop"
          /\ pc' = "send"
          /\ out_message_channels' = out_message_channels
    /\ (mutex = "worker" /\ mutex' = "worker") => received' = received

C16_NoChannelUnderLock == []C16_HoldsOnlyInHandlers /\ [][C16_Step]_vars

\* try_lock succeeded on the second pass (one message received, i still 1);
\* the worker now sends the batch's response while another holder has the mutex
C16_Witness ==
    /\ pc = "send"
    /\ mutex = "other"
    /\ i = 1
    /\ Len(received) = 1
    /\ Len(out_messages) = 1
    /\ out_messages[1][1] = received[1].meta

(***************************************************************************)
(* C17: forward progress. In an iteration the worker makes at most         *)
(* max_requests_per_iter pull attempts (i counts the received messages and *)
(* the pulls that timed out with a failed try_lock); after that many it    *)
(* goes to the blocking lock, so a batch never holds more than             *)
(* max_requests_per_iter requests. When every other holder gives the mutex *)
(* back, the requests received in an iteration are in the end all handled  *)
(* and every message of the batch has been sent.                           *)
(***************************************************************************)
C17_BatchBounded ==
    /\ i <= max_requests_per_iter
    /\ Len(received) <= i
    /\ Len(announce_requests) + Len(scrape_requests) <= max_requests_per_iter
    /\ pc = "recv" => i < max_requests_per_iter
    /\ pc = "lock" => i = max_requests_per_iter

\* the batch is handled and all its messages are sent
BatchDispatched ==
    /\ pc = "send"
    /\ announce_requests = << >>
    /\ scrape_requests = << >>
    /\ out_messages = << >>

C17_ForwardProgress ==
    /\ []C17_BatchBounded
    /\ (received # << >>) ~> BatchDispatched

\* after one message the next pull timed out and try_lock failed; the worker
\* took the blocking lock, handled the request and sent its response, and
\* another holder has the mutex again
C17_Witness ==
    /\ BatchDispatched
    /\ i = max_requests_per_iter
    /\ Len(received) = 1
    /\ mutex = "other"
    /\ out_message_channels[0] # << >>
    /\ out_message_channels[0][Len(out_message_channels[0])][1] = received[1].meta

=============================================================================
